---- MODULE Spec2Model ----
(***************************************************************************)
(* Model of MultiAgentFramework (src/main.py): the response parsing at the *)
(* Analyst and Reviewer call sites, the bounded review/revision loop       *)
(* _review_code, the pipeline process_requirement with its result         *)
(* mapping, the construction of the instance and save_results.             *)
(* Four specifications: Spec (an instance used once), DashboardSpec (the   *)
(* instance kept by streamlit_app.py and called again), ParserSpec (the    *)
(* parsing on every text) and InstanceSpec (construction and saving).      *)
(*                                                                         *)
(* A response text is a sequence of lexical tokens:                        *)
(*   "{"  "}"  ","   the JSON punctuation                                  *)
(*   "A"   the member  "status": "approved"                                *)
(*   "N"   the member  "status": "needs_revision"                          *)
(*   "S"   the member  "score": 5                                          *)
(*   "x"   any other text                                                  *)
(* A dict is a function from its keys to its values.                       *)
(***************************************************************************)
EXTENDS Integers, Sequences, FiniteSets, TLC

VARIABLES
    pc,             \* position of the running call
    entry,          \* the method the caller invoked
    exc,            \* the exception that reached the caller, "none" if none
    requirement,    \* process_requirement: the requirement argument
    last_message,   \* _analyze_requirements: messages[-1]['content']
    req_result,     \* process_requirement: req_result
    results,        \* self.results
    code_arg,       \* _review_code: the code argument
    current_code,   \* _review_code: current_code
    iteration,      \* _review_code: iteration
    max_iterations, \* _review_code: max_iterations
    review_text,    \* _review_code: review_text
    review_result,  \* _review_code: review_result
    rc_return,      \* what _review_code returned: <<>> or <<[review, code]>>
    calls,          \* the initiate_chat calls of the current call, in order
    sent,           \* the message of the latest initiate_chat
    exc_partial,    \* what the raised exception carries of self.results
    req_arg,        \* the requirements argument of the latest helper call
    run,            \* process_requirement calls made on the instance so far
    caller,         \* who drives the instance: "script" or "dashboard"
    prev_results,   \* self.results as it was when the current call began
    held,           \* what the caller keeps of the latest return: <<>> or <<value>>
    ctor_args,      \* the arguments the constructor was called with
    api_key,        \* self.api_key
    model,          \* self.model
    agents,         \* the agent attributes the instance has
    files,          \* the files the latest save_results call wrote
    p_site,         \* parsing alone: the call site applied, "none" before
    p_text,         \* parsing alone: the response text
    p_requirement,  \* parsing alone: the requirement argument
    p_out           \* parsing alone: the outcome of the call site's parsing

vars == <<pc, entry, exc, requirement, last_message, req_result, results,
          code_arg, current_code, iteration, max_iterations, review_text,
          review_result, rc_return, calls, sent, exc_partial, req_arg, run,
          caller,
          prev_results, held, ctor_args, api_key, model, agents, files,
          p_site, p_text, p_requirement, p_out>>

pipeline_vars == <<pc, entry, exc, requirement, last_message, req_result, results,
                   code_arg, current_code, iteration, max_iterations, review_text,
                   review_result, rc_return, calls, sent, exc_partial,
                   req_arg, run>>

parser_vars == <<p_site, p_text, p_requirement, p_out>>

\* what __init__ sets besides self.results, and what save_results leaves
instance_vars == <<ctor_args, api_key, model, agents, files>>

\* what no step of process_requirement or _review_code changes
fixed_vars == <<parser_vars, instance_vars, caller>>
other_vars == <<fixed_vars, prev_results, held>>

\* what the parsing alone never changes
nonparser_vars == <<pipeline_vars, instance_vars, caller, prev_results, held>>

---------------------------------------------------------------------------
(* Bounds and input sets *)

MaxLen == 5          \* longest response text the parsing alone is applied to
MaxIter == 3         \* largest max_iterations of a direct _review_code call
MaxRuns == 2         \* process_requirement calls the dashboard makes on one instance

Alphabet == {"{", "}", ",", "A", "N", "S", "x"}

AllTexts == UNION {[1..n -> Alphabet] : n \in 0..MaxLen}

\* The texts the Analyst and the Reviewer answer with in a pipeline run: no
\* span, an undecodable span, each kind of decodable object, text around an
\* object, two objects, a repeated key.
SampleTexts ==
    { <<>>, <<"x">>, <<"{", "x">>, <<"{", "}">>, <<"{", "A", "}">>,
      <<"{", "N", "}">>, <<"x", "{", "N", "}", "x">>,
      <<"{", "}", "x", "{", "}">>, <<"{", "A", ",", "N", "}">> }

\* Responses that hold two objects with a word between them, as a model
\* that answers twice or quotes an example does: '{...} x {...}'.
SmallObjects == { <<"{", "}">>, <<"{", "A", "}">>, <<"{", "N", "}">>, <<"{", "S", "}">> }
TwoObjectTexts == {a \o <<"x">> \o b : a \in SmallObjects, b \in SmallObjects}

Requirements == {"", "Create a calculator application"}
CodeTexts == {"", "def add(a,b): return a+b", "improved code"}
DocTexts == {"", "# Overview"}
TestTexts == {"", "def test_add(): pass"}
ScriptTexts == {"", "pip install -r requirements.txt"}
Timestamps == {"2024-01-01T00:00:00"}

NoCode == "-"        \* a message that carries no code, a call with no reply

\* The replies in a dashboard session, where the instance is kept and used
\* again: a malformed text, an empty object, an approval, a rejection.
DashboardTexts == { <<"{", "x">>, <<"{", "}">>, <<"{", "A", "}">>, <<"{", "N", "}">> }
DashboardCodes == {"def add(a,b): return a+b", "improved code"}

RequirementArgs ==
    IF caller = "dashboard" THEN {"Create a calculator application"} ELSE Requirements
AnalystReplies == IF caller = "dashboard" THEN DashboardTexts \ {<<"{", "A", "}">>} ELSE SampleTexts
ReviewerReplies == IF caller = "dashboard" THEN DashboardTexts ELSE SampleTexts
DeveloperReplies == IF caller = "dashboard" THEN DashboardCodes ELSE CodeTexts
WriterReplies == IF caller = "dashboard" THEN {"# Overview"} ELSE DocTexts
QAReplies == IF caller = "dashboard" THEN {"def test_add(): pass"} ELSE TestTexts
DevOpsReplies == IF caller = "dashboard" THEN {"pip install -r requirements.txt"} ELSE ScriptTexts

---------------------------------------------------------------------------
(* Dicts *)

EmptyDict == [k \in {} |-> k]

Put(d, k, v) == [y \in DOMAIN d \cup {k} |-> IF y = k THEN v ELSE d[y]]

\* dict.get(key): the value, or None (modelled as "None") when absent
Get(d, k) == IF k \in DOMAIN d THEN d[k] ELSE "None"

---------------------------------------------------------------------------
(* re.search(r'\{.*\}', text, re.DOTALL) *)

Min(S) == CHOOSE m \in S : \A n \in S : m <= n
Max(S) == CHOOSE m \in S : \A n \in S : n <= m

\* The positions at which the pattern can match: a "{" with a "}" after it.
MatchStarts(text) ==
    {i \in 1..Len(text) :
        text[i] = "{" /\ \E j \in (i+1)..Len(text) : text[j] = "}"}

\* Non-greedy variant of the pattern (\{.*?\}): stops at the first "}".
MatchEndFirst(text, i) == Min({j \in (i+1)..Len(text) : text[j] = "}"})

\* A brace-aware scan: the match ends at the "}" that closes the "{" it
\* starts with, or at the last "}" where none does.
MatchEndBalanced(text, i) ==
    LET count(tok, j) == Cardinality({k \in i..j : text[k] = tok})
        closing == {j \in (i+1)..Len(text) :
                       text[j] = "}" /\ count("{", j) = count("}", j)}
    IN  IF closing # {} THEN Min(closing)
        ELSE Max({j \in (i+1)..Len(text) : text[j] = "}"})

\* ".*" is greedy and DOTALL: the match runs to the last "}" of the text.
MatchEnd(text, i) == Max({j \in (i+1)..Len(text) : text[j] = "}"})

\* The leftmost match, or no match (None).
ReSearch(text) ==
    IF MatchStarts(text) = {}
    THEN [matched |-> FALSE, group |-> <<>>]
    ELSE LET i == Min(MatchStarts(text))
         IN  [matched |-> TRUE, group |-> SubSeq(text, i, MatchEnd(text, i))]

---------------------------------------------------------------------------
(* json.loads on a token sequence that starts with "{" and ends with "}" *)

Members == {"A", "N", "S"}

MemberKey(tok) == IF tok = "S" THEN "score" ELSE "status"

MemberValue(tok) ==
    CASE tok = "A" -> "approved"
      [] tok = "N" -> "needs_revision"
      [] tok = "S" -> 5

\* An object is "{" members separated by "," "}": the inner tokens are
\* empty, or members at the odd positions and commas at the even ones.
IsObject(span) ==
    /\ Len(span) >= 2
    /\ span[1] = "{"
    /\ span[Len(span)] = "}"
    /\ LET inner == SubSeq(span, 2, Len(span) - 1)
       IN  \/ Len(inner) = 0
           \/ /\ Len(inner) % 2 = 1
              /\ \A i \in 1..Len(inner) :
                    IF i % 2 = 1 THEN inner[i] \in Members ELSE inner[i] = ","

\* The decoded dict: for a repeated key the last member wins.
ObjectValue(span) ==
    LET inner == SubSeq(span, 2, Len(span) - 1)
        at    == {i \in 1..Len(inner) : inner[i] \in Members}
        keys  == {MemberKey(inner[i]) : i \in at}
        last(k) == Max({i \in at : MemberKey(inner[i]) = k})
    IN  [k \in keys |-> MemberValue(inner[last(k)])]

\* [ok |-> TRUE, value |-> dict], or [ok |-> FALSE] for a JSONDecodeError
JsonLoads(span) ==
    IF IsObject(span)
    THEN [ok |-> TRUE, value |-> ObjectValue(span)]
    ELSE [ok |-> FALSE, value |-> EmptyDict]

---------------------------------------------------------------------------
(* The two call sites. An outcome is [raised, value]. *)

\* the fallback with a fixed description instead of the requirement
RequirementsFallbackFixed(req) ==
    [title |-> "Software Project",
     description |-> "Software Project",
     features |-> <<"Core functionality">>,
     constraints |-> <<"Python implementation">>,
     edge_cases |-> <<>>]

RequirementsFallback(req) ==
    [title |-> "Software Project",
     description |-> req,
     features |-> <<"Core functionality">>,
     constraints |-> <<"Python implementation">>,
     edge_cases |-> <<>>]

ReviewFallback == [status |-> "approved", score |-> 8]

\* the try block without its except clause: the exception propagates
TryExceptUncaught(attempt, handler) == attempt

\* try: ... except: handler: a bare except catches every exception
TryExcept(attempt, handler) ==
    IF attempt.raised THEN [raised |-> FALSE, value |-> handler] ELSE attempt

\* json.loads(json_match.group()) inside the try block
LoadGroup(m) ==
    LET d == JsonLoads(m.group)
    IN  [raised |-> ~d.ok, value |-> d.value]

\* _analyze_requirements, from the try to the fallback return
ParseRequirements(text, req) ==
    LET m == ReSearch(text)
    IN  IF m.matched
        THEN TryExcept(LoadGroup(m), RequirementsFallback(req))
        ELSE [raised |-> FALSE, value |-> RequirementsFallback(req)]

\* _review_code, the "Parse review" block
ParseReview(text) ==
    LET m == ReSearch(text)
    IN  IF m.matched
        THEN TryExcept(LoadGroup(m), ReviewFallback)
        ELSE [raised |-> FALSE, value |-> ReviewFallback]

---------------------------------------------------------------------------
(* The state after MultiAgentFramework(api_key), before any call *)

ResultKeys == {"requirements", "code", "review", "final_code",
               "documentation", "tests", "deployment"}

\* a budget read from the caller's largest setting instead of the default
ConfiguredMaxIterations == MaxIter + 1

DefaultMaxIterations == 3    \* _review_code(..., max_iterations: int = 3)

\* no method of the instance has been called
NoCallYet ==
    /\ entry = "none"
    /\ exc = "none"
    /\ requirement = ""
    /\ last_message = <<>>
    /\ req_result = EmptyDict
    /\ code_arg = NoCode
    /\ current_code = NoCode
    /\ iteration = 0
    /\ max_iterations = 0
    /\ review_text = <<>>
    /\ review_result = EmptyDict
    /\ rc_return = <<>>
    /\ calls = <<>>
    /\ sent = [role |-> "none", code |-> NoCode, feedback |-> <<>>]
    /\ exc_partial = <<>>
    /\ req_arg = <<>>
    /\ run = 0
    /\ prev_results = EmptyDict
    /\ held = <<>>

InitPipeline ==
    /\ pc = "idle"
    /\ results = EmptyDict
    /\ NoCallYet

InitParserIdle ==
    /\ p_site = "none"
    /\ p_text = <<>>
    /\ p_requirement = ""
    /\ p_out = [raised |-> FALSE, value |-> EmptyDict]

\* the argument a call leaves out
Absent == "<absent>"

\* def __init__(self, api_key: str, model: str = "llama-3.3-70b-versatile")
DefaultModel == "llama-3.3-70b-versatile"

ApiKeys == {"", "test-api-key-12345"}
ModelArgs == {Absent, "llama-3.1-8b-instant"}

\* a constructor that drops its model argument
ModelOfIgnored(arg) == DefaultModel

\* the model parameter: the argument, or the default where there is none
ModelOf(arg) == IF arg = Absent THEN DefaultModel ELSE arg

\* _initialize_agents: the six role agents and the user proxy
InitializeAgents ==
    {"req_agent", "coding_agent", "review_agent", "doc_agent", "test_agent",
     "deploy_agent", "user_proxy"}

\* MultiAgentFramework(api_key = key) or MultiAgentFramework(key, m)
Constructed(key, m) ==
    /\ ctor_args = [api_key |-> key, model |-> m]
    /\ api_key = key
    /\ model = ModelOf(m)
    /\ agents = InitializeAgents
    /\ files = {}

\* the instance is made and used once, as by main.py's example run and the tests
Init ==
    /\ InitPipeline /\ InitParserIdle /\ caller = "script"
    /\ Constructed("test-api-key-12345", Absent)

\* the instance is kept in the session and used again (streamlit_app.py)
InitDashboard ==
    /\ InitPipeline /\ InitParserIdle /\ caller = "dashboard"
    /\ Constructed("test-api-key-12345", Absent)

\* The message given to initiate_chat: the agent, the code in it, and the
\* review text in it (a revision request only).
Msg(role, code, feedback) == [role |-> role, code |-> code, feedback |-> feedback]

\* One user_proxy.initiate_chat(agent, message=...) and its outcome.
\* role: the agent; code: the code the message carries; ok: FALSE when the
\* call raised; reply: the reply text the caller read (for the Analyst and
\* the Reviewer see last_message and review_text); verdict: the dict the
\* caller parsed from a Reviewer reply.
ChatCall(role, code, ok, reply, verdict) ==
    [role |-> role, code |-> code, ok |-> ok, reply |-> reply, verdict |-> verdict]

---------------------------------------------------------------------------
(* The callers *)

\* an off-by-one loop test: while iteration <= max_iterations
LoopContinuesInclusive(it, mi) == it <= mi

\* while iteration < max_iterations:
LoopContinues(it, mi) == it < mi

\* a call that begins with self.results = {}
ResultsCleared(r) == EmptyDict

\* self.results when Step 1 begins: process_requirement assigns nothing to
\* it before, so it is the mapping the instance had
ResultsAtCall(r) == r

\* framework.process_requirement(requirement): on a new instance, or by the
\* dashboard on the instance it keeps, after the previous call has returned
\* or raised. self.results is left as it is; the locals are those of a new
\* call.
CallProcessRequirement ==
    /\ \/ pc = "idle"
       \/ /\ caller = "dashboard"
          /\ entry = "process_requirement"
          /\ pc \in {"returned", "raised"}
          /\ run < MaxRuns
    /\ \E req \in RequirementArgs : requirement' = req
    /\ entry' = "process_requirement"
    /\ pc' = "analyze"
    /\ run' = run + 1
    /\ exc' = "none"
    /\ exc_partial' = <<>>
    /\ req_arg' = <<>>
    /\ last_message' = <<>>
    /\ req_result' = EmptyDict
    /\ code_arg' = NoCode
    /\ current_code' = NoCode
    /\ iteration' = 0
    /\ max_iterations' = 0
    /\ review_text' = <<>>
    /\ review_result' = EmptyDict
    /\ rc_return' = <<>>
    /\ calls' = <<>>
    /\ sent' = [role |-> "none", code |-> NoCode, feedback |-> <<>>]
    /\ results' = ResultsAtCall(results)
    /\ prev_results' = results
    /\ UNCHANGED held
    /\ UNCHANGED fixed_vars

\* framework._analyze_requirements(requirement), called on its own as the
\* tests do
CallAnalyzeRequirements ==
    /\ pc = "idle"
    /\ \E req \in Requirements : requirement' = req
    /\ entry' = "_analyze_requirements"
    /\ pc' = "analyze"
    /\ UNCHANGED <<exc, last_message, req_result, results, code_arg,
                   current_code, iteration, max_iterations, review_text,
                   review_result, rc_return, calls, sent, exc_partial, run, req_arg>>
    /\ UNCHANGED other_vars

\* user_proxy.chat_messages as _analyze_requirements finds it after
\* initiate_chat: whether it has an entry for the Analyst, and the contents
\* of the messages recorded there
Conversation(has, msgs) == [has_entry |-> has, messages |-> msgs]

\* A chat that took place leaves the Analyst's reply as the last message.
\* A call made on its own, with initiate_chat replaced as in the tests,
\* finds what the caller has put there: possibly no entry, or no message.
Conversations ==
    {Conversation(TRUE, <<text>>) : text \in AnalystReplies}
        \cup (IF entry = "_analyze_requirements"
              THEN {Conversation(FALSE, <<>>), Conversation(TRUE, <<>>)}
              ELSE {})

\* messages = self.user_proxy.chat_messages[self.req_agent]
\* last_message = messages[-1]['content']
LastContent(conv) ==
    IF ~conv.has_entry THEN [raised |-> "KeyError", content |-> <<>>]
    ELSE IF conv.messages = <<>> THEN [raised |-> "IndexError", content |-> <<>>]
    ELSE [raised |-> "none", content |-> conv.messages[Len(conv.messages)]]

\* framework._review_code(code, {}, max_iterations), as the tests call it.
\* With max_iterations <= 0 the while loop is not entered and the final
\* return reads the unbound review_result: UnboundLocalError.
CallReviewCode ==
    /\ pc = "idle"
    /\ \E c \in CodeTexts, mi \in (-1)..MaxIter :
          /\ code_arg' = c
          /\ current_code' = c
          /\ max_iterations' = mi
          /\ IF LoopContinues(0, mi)
             THEN pc' = "review" /\ exc' = exc
             ELSE pc' = "raised" /\ exc' = "UnboundLocalError"
    /\ iteration' = 0
    /\ entry' = "_review_code"
    /\ UNCHANGED <<requirement, last_message, req_result, results,
                   review_text, review_result, rc_return, calls,
                   sent, exc_partial, run>>
    /\ req_arg' = <<EmptyDict>>
    /\ UNCHANGED other_vars

---------------------------------------------------------------------------
(* process_requirement, one action per role invocation *)

\* the helpers called with an empty mapping, as the tests call them
HandedEmpty(rr) == EmptyDict

\* the requirements argument of _generate_code, _review_code,
\* _generate_documentation, _generate_tests and _generate_deployment:
\* req_result, the value stored as results['requirements']
Handed(rr) == rr

\* Step 1: _analyze_requirements(requirement); results['requirements']
AnalyzeRequirements ==
    /\ pc = "analyze"
    /\ \E conv \in Conversations :
          LET msg == LastContent(conv)
              out == ParseRequirements(msg.content, requirement)
          IN  /\ calls' = Append(calls, ChatCall("Analyst", NoCode, TRUE, NoCode, EmptyDict))
              /\ IF msg.raised # "none"
                 THEN /\ pc' = "raised"
                      /\ exc' = msg.raised
                      /\ UNCHANGED <<last_message, req_result, results>>
                 ELSE /\ last_message' = msg.content
                      /\ IF out.raised
                         THEN /\ pc' = "raised"
                              /\ exc' = "JSONDecodeError"
                              /\ UNCHANGED <<req_result, results>>
                         ELSE /\ req_result' = out.value
                              /\ exc' = exc
                              /\ IF entry = "process_requirement"
                                 THEN /\ results' = Put(results, "requirements", out.value)
                                      /\ pc' = "generate"
                                 ELSE /\ results' = results
                                      /\ pc' = "returned"
    /\ sent' = Msg("Analyst", NoCode, <<>>)
    /\ UNCHANGED <<entry, requirement, code_arg, current_code, iteration,
                   max_iterations, review_text, review_result, rc_return,
                   exc_partial, run, req_arg>>
    /\ UNCHANGED other_vars

\* Step 2: _generate_code(req_result); results['code']; then the call
\* _review_code(code_result, req_result) up to the loop's first test.
GenerateCode ==
    /\ pc = "generate"
    /\ \E c \in DeveloperReplies :
          /\ calls' = Append(calls, ChatCall("Developer", NoCode, TRUE, c, EmptyDict))
          /\ results' = Put(results, "code", c)
          /\ code_arg' = c
          /\ current_code' = c
    /\ iteration' = 0
    /\ max_iterations' = DefaultMaxIterations
    /\ IF LoopContinues(0, DefaultMaxIterations)
       THEN pc' = "review" /\ exc' = exc
       ELSE pc' = "raised" /\ exc' = "UnboundLocalError"
    /\ sent' = Msg("Developer", NoCode, <<>>)
    /\ UNCHANGED <<entry, requirement, last_message, req_result,
                   review_text, review_result, rc_return, exc_partial, run>>
    /\ req_arg' = <<Handed(req_result)>>
    /\ UNCHANGED other_vars

---------------------------------------------------------------------------
(* _review_code *)

\* the comparison with a misspelt status, which no verdict carries
IsApprovedTypo(rr) == Get(rr, "status") = "Approved"

\* a missing status read with the default 'approved'
IsApprovedByDefault(rr) == Get(rr, "status") \in {"approved", "None"}

\* if review_result.get('status') == 'approved':
IsApproved(rr) == Get(rr, "status") = "approved"

\* the budget test without the "- 1": a revision follows the last review too
MayReviseAlways(it, mi) == it < mi

\* the revision made without a budget test
MayReviseUnbounded(it, mi) == TRUE

\* the test off by one the other way: the last revision is not made
MayReviseShort(it, mi) == it < mi - 2

\* if iteration < max_iterations - 1:
MayRevise(it, mi) == it < mi - 1

\* return review_result, code: the argument instead of current_code
ReviewReturnsOriginal(rr, cc) ==
    /\ rc_return' = <<[review |-> rr, code |-> code_arg]>>
    /\ IF entry = "process_requirement"
       THEN /\ results' = Put(Put(results, "review", rr), "final_code", code_arg)
            /\ pc' = "document"
       ELSE /\ results' = results
            /\ pc' = "returned"

\* Step 3 without the assignment of results['final_code']
ReviewReturnsNoFinalCode(rr, cc) ==
    /\ rc_return' = <<[review |-> rr, code |-> cc]>>
    /\ IF entry = "process_requirement"
       THEN /\ results' = Put(results, "review", rr)
            /\ pc' = "document"
       ELSE /\ results' = results
            /\ pc' = "returned"

\* Step 3 storing the reviewed code as results['code'] too
ReviewReturnsUpdatesCode(rr, cc) ==
    /\ rc_return' = <<[review |-> rr, code |-> cc]>>
    /\ IF entry = "process_requirement"
       THEN /\ results' = Put(Put(Put(results, "review", rr), "final_code", cc),
                              "code", cc)
            /\ pc' = "document"
       ELSE /\ results' = results
            /\ pc' = "returned"

\* Step 4 left out: Step 5 follows the review
ReviewReturnsSkipsWriter(rr, cc) ==
    /\ rc_return' = <<[review |-> rr, code |-> cc]>>
    /\ IF entry = "process_requirement"
       THEN /\ results' = Put(Put(results, "review", rr), "final_code", cc)
            /\ pc' = "tests"
       ELSE /\ results' = results
            /\ pc' = "returned"

\* return review_result, current_code; in process_requirement the pair is
\* stored as results['review'] and results['final_code'] (Step 3).
ReviewReturns(rr, cc) ==
    /\ rc_return' = <<[review |-> rr, code |-> cc]>>
    /\ IF entry = "process_requirement"
       THEN /\ results' = Put(Put(results, "review", rr), "final_code", cc)
            /\ pc' = "document"
       ELSE /\ results' = results
            /\ pc' = "returned"

\* iteration += 1, then the loop test: another round, or the final return
NextRound(rr, cc) ==
    /\ iteration' = iteration + 1
    /\ IF LoopContinues(iteration + 1, max_iterations)
       THEN pc' = "review" /\ UNCHANGED <<results, rc_return>>
       ELSE ReviewReturns(rr, cc)

\* One pass of the loop body up to the revision: the Reviewer is invoked on
\* current_code and its reply parsed.
ReviewCode ==
    /\ pc = "review"
    /\ \E text \in ReviewerReplies :
          LET out == ParseReview(text)
          IN  /\ review_text' = text
              /\ calls' = Append(calls, ChatCall("Reviewer", current_code, TRUE, NoCode,
                                                 IF out.raised THEN EmptyDict ELSE out.value))
              /\ IF out.raised
                 THEN /\ pc' = "raised"
                      /\ exc' = "JSONDecodeError"
                      /\ UNCHANGED <<review_result, iteration, results, rc_return>>
                 ELSE /\ review_result' = out.value
                      /\ exc' = exc
                      /\ IF IsApproved(out.value)
                         THEN /\ ReviewReturns(out.value, current_code)
                              /\ iteration' = iteration
                         ELSE IF MayRevise(iteration, max_iterations)
                              THEN /\ pc' = "revise"
                                   /\ UNCHANGED <<iteration, results, rc_return>>
                              ELSE NextRound(out.value, current_code)
    /\ sent' = Msg("Reviewer", current_code, <<>>)
    /\ UNCHANGED <<entry, requirement, last_message, req_result, code_arg,
                   current_code, max_iterations, exc_partial, run, req_arg>>
    /\ UNCHANGED other_vars

\* json.dumps of a verdict: its members between braces
Dumps(d) ==
    LET st == IF "status" \in DOMAIN d
              THEN <<IF d["status"] = "approved" THEN "A" ELSE "N">> ELSE <<>>
        sc == IF "score" \in DOMAIN d THEN <<"S">> ELSE <<>>
        sep == IF st # <<>> /\ sc # <<>> THEN <<",">> ELSE <<>>
    IN  <<"{">> \o st \o sep \o sc \o <<"}">>

\* the revision request built from the parsed verdict instead of the text
ReviewFeedbackParsed(text, rr) == Dumps(rr)

\* "Improve this code based on review:\n{review_text}...": the raw text
ReviewFeedback(text, rr) == text

\* the revision that also records its reply as results['final_code']
ReviseCodeRecorded ==
    /\ pc = "revise"
    /\ \E c \in DeveloperReplies :
          /\ calls' = Append(calls, ChatCall("Developer", current_code, TRUE, c, EmptyDict))
          /\ current_code' = c
          /\ results' = IF entry = "process_requirement"
                        THEN Put(results, "final_code", c) ELSE results
    /\ iteration' = iteration + 1
    /\ pc' = "review"
    /\ sent' = Msg("Developer", current_code, ReviewFeedback(review_text, review_result))
    /\ UNCHANGED <<entry, exc, requirement, last_message, req_result, code_arg,
                   max_iterations, review_text, review_result, rc_return,
                   exc_partial, run, req_arg>>
    /\ UNCHANGED other_vars

\* the revision whose reply is dropped: current_code keeps the old code
ReviseCodeKeepsOld ==
    /\ pc = "revise"
    /\ \E c \in DeveloperReplies :
          /\ calls' = Append(calls, ChatCall("Developer", current_code, TRUE, c, EmptyDict))
          /\ current_code' = current_code
          /\ NextRound(review_result, current_code)
    /\ sent' = Msg("Developer", current_code, ReviewFeedback(review_text, review_result))
    /\ UNCHANGED <<entry, exc, requirement, last_message, req_result, code_arg,
                   max_iterations, review_text, review_result, exc_partial, run, req_arg>>
    /\ UNCHANGED other_vars

\* The revision: the Developer is invoked with the review text and the
\* current code, and its reply replaces current_code.
ReviseCode ==
    /\ pc = "revise"
    /\ \E c \in DeveloperReplies :
          /\ calls' = Append(calls, ChatCall("Developer", current_code, TRUE, c, EmptyDict))
          /\ current_code' = c
          /\ NextRound(review_result, c)
    /\ sent' = Msg("Developer", current_code, ReviewFeedback(review_text, review_result))
    /\ UNCHANGED <<entry, exc, requirement, last_message, req_result, code_arg,
                   max_iterations, review_text, review_result, exc_partial, run, req_arg>>
    /\ UNCHANGED other_vars

---------------------------------------------------------------------------
(* process_requirement, Steps 4 to 6 *)

\* a return of a copy of the mapping, as return dict(self.results) gives
ReturnsCopy(r) == <<[alias |-> FALSE, snapshot |-> r]>>

\* return self.results: the caller is given the instance's mapping itself
ReturnsResults(r) == <<[alias |-> TRUE, snapshot |-> EmptyDict]>>

\* what the caller reads through the value it holds
Seen(h) == IF h[1].alias THEN results ELSE h[1].snapshot

\* the later stages given the first code instead of the loop's
FinalCodeInitial == code_arg

\* final_code of process_requirement: the code _review_code returned
FinalCode == rc_return[1].code

\* Step 4: _generate_documentation(final_code, req_result)
GenerateDocumentation ==
    /\ pc = "document"
    /\ \E d \in WriterReplies :
          /\ calls' = Append(calls, ChatCall("Writer", FinalCode, TRUE, d, EmptyDict))
          /\ results' = Put(results, "documentation", d)
    /\ pc' = "tests"
    /\ sent' = Msg("Writer", FinalCode, <<>>)
    /\ UNCHANGED <<entry, exc, requirement, last_message, req_result, code_arg,
                   current_code, iteration, max_iterations, review_text,
                   review_result, rc_return, exc_partial, run>>
    /\ req_arg' = <<Handed(req_result)>>
    /\ UNCHANGED other_vars

\* Step 5: _generate_tests(final_code, req_result)
GenerateTests ==
    /\ pc = "tests"
    /\ \E t \in QAReplies :
          /\ calls' = Append(calls, ChatCall("QA", FinalCode, TRUE, t, EmptyDict))
          /\ results' = Put(results, "tests", t)
    /\ pc' = "deploy"
    /\ sent' = Msg("QA", FinalCode, <<>>)
    /\ UNCHANGED <<entry, exc, requirement, last_message, req_result, code_arg,
                   current_code, iteration, max_iterations, review_text,
                   review_result, rc_return, exc_partial, run>>
    /\ req_arg' = <<Handed(req_result)>>
    /\ UNCHANGED other_vars

\* Step 6: _generate_deployment(final_code, req_result); return self.results
GenerateDeployment ==
    /\ pc = "deploy"
    /\ \E sc \in DevOpsReplies, ts \in Timestamps :
          /\ calls' = Append(calls, ChatCall("DevOps", FinalCode, TRUE, sc, EmptyDict))
          /\ results' = Put(results, "deployment", [script |-> sc, timestamp |-> ts])
          /\ held' = ReturnsResults(Put(results, "deployment",
                                        [script |-> sc, timestamp |-> ts]))
    /\ pc' = "returned"
    /\ sent' = Msg("DevOps", FinalCode, <<>>)
    /\ UNCHANGED <<entry, exc, requirement, last_message, req_result, code_arg,
                   current_code, iteration, max_iterations, review_text,
                   review_result, rc_return, exc_partial, run>>
    /\ req_arg' = <<Handed(req_result)>>
    /\ UNCHANGED <<fixed_vars, prev_results>>

---------------------------------------------------------------------------
(* A failing initiate_chat *)

Invoking == {"analyze", "generate", "review", "revise", "document", "tests", "deploy"}

RoleAt(p) ==
    CASE p = "analyze"  -> "Analyst"
      [] p = "generate" -> "Developer"
      [] p = "review"   -> "Reviewer"
      [] p = "revise"   -> "Developer"
      [] p = "document" -> "Writer"
      [] p = "tests"    -> "QA"
      [] p = "deploy"   -> "DevOps"

CodeSentAt(p) ==
    CASE p \in {"analyze", "generate"} -> NoCode
      [] p \in {"review", "revise"} -> current_code
      [] OTHER -> FinalCode

\* the requirements argument of the helper called at position p
ReqArgAt(p) ==
    IF p \in {"generate", "document", "tests", "deploy"}
    THEN <<Handed(req_result)>> ELSE req_arg

\* a failing call that is tried again instead of raised
InvokeFailsRetried ==
    /\ pc \in Invoking
    /\ calls' = Append(calls, ChatCall(RoleAt(pc), CodeSentAt(pc), FALSE, NoCode, EmptyDict))
    /\ UNCHANGED <<pc, exc, entry, requirement, last_message, req_result, results,
                   code_arg, current_code, iteration, max_iterations,
                   review_text, review_result, rc_return, sent, exc_partial, run, req_arg>>
    /\ UNCHANGED other_vars

\* an except clause that raises a new exception holding self.results
ReraisedWithResults(r) == <<r>>

\* except Exception as e: ...; raise: the exception caught is raised again as
\* it is, and nothing of self.results is put into it
Reraised(r) == <<>>

\* The call raises: nothing catches it in the helper, and the except clause
\* of process_requirement logs it and raises it again.
InvokeFails ==
    /\ pc \in Invoking
    /\ calls' = Append(calls, ChatCall(RoleAt(pc), CodeSentAt(pc), FALSE, NoCode, EmptyDict))
    /\ sent' = Msg(RoleAt(pc), CodeSentAt(pc),
                   IF pc = "revise" THEN ReviewFeedback(review_text, review_result) ELSE <<>>)
    /\ pc' = "raised"
    /\ exc' = "transport"
    /\ req_arg' = ReqArgAt(pc)
    /\ exc_partial' = IF entry = "process_requirement" THEN Reraised(results) ELSE <<>>
    /\ UNCHANGED <<entry, requirement, last_message, req_result, results,
                   code_arg, current_code, iteration, max_iterations,
                   review_text, review_result, rc_return, run>>
    /\ UNCHANGED other_vars

Next ==
    \/ CallAnalyzeRequirements
    \/ CallProcessRequirement
    \/ CallReviewCode
    \/ AnalyzeRequirements
    \/ GenerateCode
    \/ ReviewCode
    \/ ReviseCode
    \/ GenerateDocumentation
    \/ GenerateTests
    \/ GenerateDeployment
    \/ InvokeFails

Spec == Init /\ [][Next]_vars

\* the same program, driven by the dashboard
DashboardSpec == InitDashboard /\ [][Next]_vars

---------------------------------------------------------------------------
(* The parsing of the two call sites applied to every text up to MaxLen *)

InitParser ==
    /\ InitPipeline
    /\ caller = "script"
    /\ Constructed("test-api-key-12345", Absent)
    /\ p_site = "none"
    /\ p_text \in AllTexts \cup TwoObjectTexts
    /\ p_requirement \in Requirements
    /\ p_out = [raised |-> FALSE, value |-> EmptyDict]

\* _analyze_requirements on last_message = p_text
ApplyParseRequirements ==
    /\ p_site = "none"
    /\ p_site' = "Analyst"
    /\ p_out' = ParseRequirements(p_text, p_requirement)
    /\ UNCHANGED <<p_text, p_requirement>>
    /\ UNCHANGED nonparser_vars

\* _review_code on review_text = p_text
ApplyParseReview ==
    /\ p_site = "none"
    /\ p_site' = "Reviewer"
    /\ p_out' = ParseReview(p_text)
    /\ UNCHANGED <<p_text, p_requirement>>
    /\ UNCHANGED nonparser_vars

NextParser == ApplyParseRequirements \/ ApplyParseReview

ParserSpec == InitParser /\ [][NextParser]_vars

---------------------------------------------------------------------------
(* The program keeps running: a pending initiate_chat either answers or   *)
(* raises, and the sequential code after it is executed.                   *)

FairSpec == Spec /\ WF_vars(Next)

---------------------------------------------------------------------------
(* The instance: its construction, and save_results on a result mapping    *)
(* that holds any of the fields                                            *)

\* A field that holds a plain string where a mapping is usual is written
\* [str |-> text]; isinstance(v, dict) is then the absence of that field.
Str(text) == [str |-> text]
IsDict(v) == "str" \notin DOMAIN v

\* a value for each field, as test_save_results and a run give them
SampleResults ==
    [requirements  |-> RequirementsFallback("Create a calculator application"),
     code          |-> "def add(a,b): return a+b",
     review        |-> ReviewFallback,
     final_code    |-> "improved code",
     documentation |-> "# Overview",
     tests         |-> "def test_add(): pass",
     deployment    |-> [script |-> "pip install -r requirements.txt",
                        timestamp |-> "2024-01-01T00:00:00"]]

\* no instance yet
InitInstance ==
    /\ pc = "new"
    /\ results = EmptyDict
    /\ NoCallYet /\ InitParserIdle /\ caller = "script"
    /\ ctor_args = [api_key |-> Absent, model |-> Absent]
    /\ api_key = Absent
    /\ model = Absent
    /\ agents = {}
    /\ files = {}

\* where the instance exists and no call of it is running
AtRest == {"idle", "assigned", "saved"}

\* framework = MultiAgentFramework(key) or MultiAgentFramework(key, m): the
\* first instance, or a new one in place of the one in use. No argument is
\* examined, and the agents are made from the configuration without a call
\* to the service.
Construct ==
    /\ pc \in {"new"} \cup AtRest
    /\ \E key \in ApiKeys, m \in ModelArgs :
          /\ ctor_args' = [api_key |-> key, model |-> m]
          /\ api_key' = key
          /\ model' = ModelOf(m)
    /\ results' = EmptyDict
    /\ agents' = InitializeAgents
    /\ files' = {}
    /\ pc' = "idle"
    /\ UNCHANGED <<entry, exc, requirement, last_message, req_result, code_arg,
                   current_code, iteration, max_iterations, review_text,
                   review_result, rc_return, calls, sent, exc_partial, run, req_arg>>
    /\ UNCHANGED <<parser_vars, caller, prev_results, held>>

\* framework.results = {...} on a new instance, as test_save_results does:
\* any of the fields, the deployment a mapping or a plain string
AssignResults ==
    /\ pc = "idle"
    /\ \E ks \in SUBSET ResultKeys, plain \in BOOLEAN :
          /\ plain => "deployment" \in ks
          /\ results' = [k \in ks |->
                            IF k = "deployment" /\ plain
                            THEN Str(SampleResults[k].script)
                            ELSE SampleResults[k]]
    /\ pc' = "assigned"
    /\ UNCHANGED <<entry, exc, requirement, last_message, req_result, code_arg,
                   current_code, iteration, max_iterations, review_text,
                   review_result, rc_return, calls, sent, exc_partial, run, req_arg>>
    /\ UNCHANGED <<parser_vars, instance_vars, caller, prev_results, held>>

\* save_results without the file of the first code
SavedFilesNoInitial(r) ==
    {"full_results.json", "README.md"}
        \cup (IF "requirements" \in DOMAIN r THEN {"requirements.json"} ELSE {})
        \cup (IF "final_code" \in DOMAIN r THEN {"generated_code.py"} ELSE {})
        \cup (IF "review" \in DOMAIN r THEN {"code_review.json"} ELSE {})
        \cup (IF "documentation" \in DOMAIN r THEN {"documentation.md"} ELSE {})
        \cup (IF "tests" \in DOMAIN r THEN {"test_generated_code.py"} ELSE {})
        \cup (IF "deployment" \in DOMAIN r
              THEN {"deploy.sh"} \cup (IF IsDict(r["deployment"])
                                       THEN {"deployment_info.json"} ELSE {})
              ELSE {})

\* the files save_results opens for writing, given self.results
SavedFiles(r) ==
    (IF "requirements" \in DOMAIN r THEN {"requirements.json"} ELSE {})
        \cup (IF "code" \in DOMAIN r THEN {"initial_code.py"} ELSE {})
        \cup (IF "final_code" \in DOMAIN r THEN {"generated_code.py"} ELSE {})
        \cup (IF "review" \in DOMAIN r THEN {"code_review.json"} ELSE {})
        \cup (IF "documentation" \in DOMAIN r THEN {"documentation.md"} ELSE {})
        \cup (IF "tests" \in DOMAIN r THEN {"test_generated_code.py"} ELSE {})
        \cup (IF "deployment" \in DOMAIN r
              THEN {"deploy.sh"} \cup (IF IsDict(r["deployment"])
                                       THEN {"deployment_info.json"} ELSE {})
              ELSE {})
        \cup {"full_results.json"}
        \cup {"README.md"}

\* framework.save_results(output_dir)
SaveResults ==
    /\ pc \in {"idle", "assigned"}
    /\ files' = SavedFiles(results)
    /\ pc' = "saved"
    /\ UNCHANGED <<entry, exc, requirement, last_message, req_result, results,
                   code_arg, current_code, iteration, max_iterations,
                   review_text, review_result, rc_return, calls, sent,
                   exc_partial, run, req_arg>>
    /\ UNCHANGED <<parser_vars, ctor_args, api_key, model, agents, caller,
                   prev_results, held>>

NextInstance == Construct \/ AssignResults \/ SaveResults

InstanceSpec == InitInstance /\ [][NextInstance]_vars

---------------------------------------------------------------------------
(* Vocabulary of the properties, read off the call log *)

CallIdx == 1..Len(calls)

IsReview(c) == c.role = "Reviewer"
IsRevision(c) == c.role = "Developer" /\ c.code # NoCode

ReviewIdx == {i \in CallIdx : IsReview(calls[i])}
RevisionIdx == {i \in CallIdx : IsRevision(calls[i])}

Reviews == Cardinality(ReviewIdx)
Revisions == Cardinality(RevisionIdx)
RoleCount(r) == Cardinality({i \in CallIdx : calls[i].role = r})

InLoop == pc \in {"review", "revise"}
Returned == rc_return # <<>>

\* the span the specification describes: first "{" to last "}"
Opens(text) == {i \in 1..Len(text) : text[i] = "{"}
Closes(text) == {i \in 1..Len(text) : text[i] = "}"}
HasSpan(text) ==
    /\ Opens(text) # {}
    /\ Closes(text) # {}
    /\ Min(Opens(text)) < Max(Closes(text))
SpanOf(text) == SubSeq(text, Min(Opens(text)), Max(Closes(text)))
Decodes(text) == HasSpan(text) /\ IsObject(SpanOf(text))
Malformed(text) == ~Decodes(text)

\* every Reviewer call so far answered, and with a verdict that is not approved
AllRejected ==
    /\ \A i \in CallIdx : calls[i].ok
    /\ \A i \in ReviewIdx : Get(calls[i].verdict, "status") # "approved"

\* every Reviewer call so far answered with status needs_revision
AlwaysNeedsRevision ==
    /\ \A i \in CallIdx : calls[i].ok
    /\ \A i \in ReviewIdx : Get(calls[i].verdict, "status") = "needs_revision"

---------------------------------------------------------------------------
(* C1: for max_iterations >= 1, whatever the Reviewer and the Developer    *)
(* answer, _review_code makes at most max_iterations Reviewer invocations  *)
(* and at most max_iterations - 1 revisions, and it leaves the loop.       *)

C1_Budget ==
    max_iterations >= 1 =>
        /\ Reviews <= max_iterations
        /\ Revisions <= max_iterations - 1

C1_BoundedTermination == [] C1_Budget /\ (InLoop ~> ~InLoop)

C1_Witness ==
    /\ entry = "_review_code"
    /\ pc = "returned"
    /\ max_iterations = MaxIter
    /\ Reviews = max_iterations
    /\ Revisions = max_iterations - 1

---------------------------------------------------------------------------
(* C2: when the first Reviewer reply parses to status approved, there is   *)
(* exactly one Reviewer invocation and no revision, and _review_code       *)
(* returns that verdict with the code it was given; in process_requirement *)
(* final_code then equals code and the Developer is invoked exactly once.  *)

FirstReviewApproved ==
    /\ ReviewIdx # {}
    /\ calls[Min(ReviewIdx)].ok
    /\ Get(calls[Min(ReviewIdx)].verdict, "status") = "approved"

C2_ApprovedAtOnce ==
    FirstReviewApproved =>
        /\ Reviews = 1
        /\ Revisions = 0
        /\ rc_return = <<[review |-> calls[Min(ReviewIdx)].verdict, code |-> code_arg]>>
        /\ entry = "process_requirement" =>
              /\ results["final_code"] = results["code"]
              /\ results["review"] = calls[Min(ReviewIdx)].verdict
              /\ RoleCount("Developer") = 1

C2_Witness ==
    /\ FirstReviewApproved
    /\ entry = "process_requirement"
    /\ pc = "returned"
    /\ results["code"] # ""
    /\ review_text = <<"{", "A", "}">>

---------------------------------------------------------------------------
(* C3: when the Reviewer answers needs_revision on every call,             *)
(* _review_code exhausts the budget and returns the code of the final      *)
(* revision.                                                               *)

LastRevisionReply == calls[Max(RevisionIdx)].reply

\* as claimed, for every max_iterations >= 1: the returned code comes from
\* a revision, never from the argument
C3_AsClaimed ==
    (max_iterations >= 1 /\ Returned /\ AlwaysNeedsRevision) =>
        /\ Reviews = max_iterations
        /\ Revisions >= 1
        /\ rc_return[1].code = LastRevisionReply

\* amended: with max_iterations = 1 no revision is made and the argument
\* comes back
C3_Amended ==
    (max_iterations >= 1 /\ Returned /\ AlwaysNeedsRevision) =>
        /\ Reviews = max_iterations
        /\ Revisions = max_iterations - 1
        /\ rc_return[1].code =
              IF max_iterations = 1 THEN code_arg ELSE LastRevisionReply

C3_Witness ==
    /\ Returned
    /\ AlwaysNeedsRevision
    /\ max_iterations = 3
    /\ Revisions = 2
    /\ rc_return[1].code = "improved code"
    /\ code_arg = "def add(a,b): return a+b"

---------------------------------------------------------------------------
(* C4: whenever _review_code returns, the verdict it returns was parsed    *)
(* from the Reviewer's reply to exactly the code it returns: the last call *)
(* of the loop is a review, never a revision.                              *)

LoopIdx == ReviewIdx \cup RevisionIdx

C4_VerdictIsAboutReturnedCode ==
    Returned =>
        /\ LoopIdx # {}
        /\ LET last == calls[Max(LoopIdx)]
           IN  /\ IsReview(last)
               /\ last.ok
               /\ last.code = rc_return[1].code
               /\ last.verdict = rc_return[1].review
               /\ rc_return[1].review =
                     IF Decodes(review_text)
                     THEN ObjectValue(SpanOf(review_text))
                     ELSE [status |-> "approved", score |-> 8]

\* the budget runs out on a rejection of revised code
C4_Witness ==
    /\ Returned
    /\ AllRejected
    /\ Revisions = 2
    /\ rc_return[1].code # code_arg
    /\ rc_return[1].review = [status |-> "needs_revision"]

---------------------------------------------------------------------------
(* C5: fail-open. A Reviewer reply with no span, or with a span that does  *)
(* not decode, gives the verdict {status: approved, score: 8}, and         *)
(* _review_code returns at once with the current code: no invocation of    *)
(* the Reviewer or the Developer follows, in whichever round.              *)

\* review_text is the reply of the last Reviewer call once one has answered
LastReviewAnswered == ReviewIdx # {} /\ calls[Max(ReviewIdx)].ok

C5_FailOpen ==
    (LastReviewAnswered /\ Malformed(review_text)) =>
        /\ review_result = [status |-> "approved", score |-> 8]
        /\ rc_return = <<[review |-> review_result, code |-> current_code]>>
        /\ ~InLoop
        /\ Max(LoopIdx) = Max(ReviewIdx)
        /\ calls[Max(ReviewIdx)].code = current_code

\* "{incomplete json" in the third round
C5_Witness ==
    /\ LastReviewAnswered
    /\ review_text = <<"{", "x">>
    /\ Reviews = 3
    /\ Returned

---------------------------------------------------------------------------
(* C6: the parsing at both call sites never raises; when the span from the *)
(* first "{" to the last "}" exists and decodes, the result is the decoded *)
(* object, and otherwise it is exactly the call site's fallback.           *)

C6_ParseOrFallback ==
    p_site # "none" =>
        /\ ~p_out.raised
        /\ p_out.value =
              IF Decodes(p_text)
              THEN ObjectValue(SpanOf(p_text))
              ELSE IF p_site = "Analyst"
                   THEN [title |-> "Software Project",
                         description |-> p_requirement,
                         features |-> <<"Core functionality">>,
                         constraints |-> <<"Python implementation">>,
                         edge_cases |-> <<>>]
                   ELSE [status |-> "approved", score |-> 8]

\* an object between other text, at the Reviewer's call site
C6_Witness ==
    /\ p_site = "Reviewer"
    /\ p_text = <<"x", "{", "N", "}", "x">>
    /\ p_out.value = [status |-> "needs_revision"]

---------------------------------------------------------------------------
(* C7: when the Analyst's reply cannot be parsed, _analyze_requirements    *)
(* returns exactly the fallback mapping, whose description is the          *)
(* requirement string it was given.                                        *)

AnalystAnswered == \E i \in CallIdx : calls[i].role = "Analyst" /\ calls[i].ok

\* the Analyst's last message was there to be read
AnalystMessageRead == exc \notin {"KeyError", "IndexError"}

C7_AnalystFallback ==
    (AnalystAnswered /\ AnalystMessageRead /\ Malformed(last_message)) =>
        /\ req_result =
              [title |-> "Software Project",
               description |-> requirement,
               features |-> <<"Core functionality">>,
               constraints |-> <<"Python implementation">>,
               edge_cases |-> <<>>]
        /\ entry = "process_requirement" =>
              /\ "requirements" \in DOMAIN results
              /\ results["requirements"] = req_result

\* "{incomplete json"
C7_Witness ==
    /\ entry = "process_requirement"
    /\ AnalystAnswered
    /\ last_message = <<"{", "x">>
    /\ requirement = "Create a calculator application"
    /\ results["requirements"].description = "Create a calculator application"

---------------------------------------------------------------------------
(* C8: a process_requirement run in which every invocation succeeds        *)
(* returns a mapping with exactly the seven keys.                          *)

Succeeded == entry = "process_requirement" /\ pc = "returned"

ReplyOf(r) == calls[Max({i \in CallIdx : calls[i].role = r})].reply

\* as claimed: every value is non-empty, whatever the roles answer
C8_AsClaimed ==
    Succeeded =>
        /\ DOMAIN results = ResultKeys
        /\ DOMAIN results["requirements"] # {}
        /\ results["code"] # ""
        /\ DOMAIN results["review"] # {}
        /\ results["final_code"] # ""
        /\ results["documentation"] # ""
        /\ results["tests"] # ""
        /\ DOMAIN results["deployment"] # {}

\* amended: the deployment value always has its script and timestamp; each
\* other value is what the role answered and is empty exactly when that
\* answer was: an empty text, or a text whose span is the empty object
C8_Amended ==
    Succeeded =>
        /\ DOMAIN results = ResultKeys
        /\ DOMAIN results["deployment"] = {"script", "timestamp"}
        /\ DOMAIN results["requirements"] = {} <=>
              (Decodes(last_message) /\ SpanOf(last_message) = <<"{", "}">>)
        /\ DOMAIN results["review"] = {} <=>
              (Decodes(review_text) /\ SpanOf(review_text) = <<"{", "}">>)
        /\ results["code"] = calls[2].reply
        /\ results["final_code"] = ReplyOf("Developer")
        /\ results["documentation"] = ReplyOf("Writer")
        /\ results["tests"] = ReplyOf("QA")
        /\ results["deployment"].script = ReplyOf("DevOps")

\* a successful run whose every stage but the last answered with nothing
C8_Witness ==
    /\ Succeeded
    /\ results["requirements"] = EmptyDict
    /\ results["code"] = ""
    /\ results["review"] = EmptyDict
    /\ results["final_code"] = ""
    /\ results["documentation"] = ""
    /\ results["tests"] = ""
    /\ Revisions = 2

---------------------------------------------------------------------------
(* C9: in a process_requirement run the roles are invoked in the order     *)
(* Analyst, Developer, revision loop (Reviewer and Developer in turn),     *)
(* Writer, QA, DevOps; a stage starts only when the one before it has      *)
(* completed; in a successful run Analyst, Writer, QA and DevOps are       *)
(* invoked exactly once each.                                              *)

Stage(c) ==
    CASE c.role = "Analyst" -> 1
      [] c.role = "Developer" /\ c.code = NoCode -> 2
      [] IsReview(c) \/ IsRevision(c) -> 3
      [] c.role = "Writer" -> 4
      [] c.role = "QA" -> 5
      [] c.role = "DevOps" -> 6

C9_StageOrder ==
    entry = "process_requirement" =>
        /\ calls # <<>> => Stage(calls[1]) = 1
        /\ \A i \in 1..(Len(calls) - 1) :
              LET a == calls[i]
                  b == calls[i + 1]
              IN  /\ a.ok
                  /\ Stage(b) \in {Stage(a), Stage(a) + 1}
                  /\ Stage(b) = Stage(a) => (Stage(a) = 3 /\ a.role # b.role)
                  /\ (Stage(a) = 2 /\ Stage(b) = 3) => IsReview(b)
                  /\ (Stage(a) = 3 /\ Stage(b) = 4) => IsReview(a)
        /\ pc = "returned" =>
              /\ Stage(calls[Len(calls)]) = 6
              /\ \A r \in {"Analyst", "Writer", "QA", "DevOps"} : RoleCount(r) = 1

C9_Witness ==
    /\ Succeeded
    /\ Revisions = 2
    /\ Len(calls) = 10

---------------------------------------------------------------------------
(* C10: when an invocation fails during process_requirement it is not      *)
(* tried again, no later stage is invoked, the failure reaches the caller, *)
(* and the outputs of the stages completed before it stay in the result    *)
(* mapping.                                                                *)

FailedIdx == {i \in CallIdx : ~calls[i].ok}

Answered(stage) == \E i \in CallIdx : Stage(calls[i]) = stage /\ calls[i].ok

CompletedOutputsKept ==
    /\ Answered(1) =>
          "requirements" \in DOMAIN results /\ results["requirements"] = req_result
    /\ Answered(2) =>
          "code" \in DOMAIN results /\ results["code"] = calls[2].reply
    /\ Returned =>
          /\ {"review", "final_code"} \subseteq DOMAIN results
          /\ results["review"] = rc_return[1].review
          /\ results["final_code"] = rc_return[1].code
    /\ Answered(4) =>
          "documentation" \in DOMAIN results
              /\ results["documentation"] = ReplyOf("Writer")
    /\ Answered(5) =>
          "tests" \in DOMAIN results /\ results["tests"] = ReplyOf("QA")

C10_FailureAborts ==
    (entry = "process_requirement" /\ FailedIdx # {}) =>
        /\ FailedIdx = {Len(calls)}
        /\ pc = "raised"
        /\ exc = "transport"
        /\ CompletedOutputsKept

\* the QA call fails after a revision: five outputs are kept
C10_Witness ==
    /\ entry = "process_requirement"
    /\ pc = "raised"
    /\ calls[Len(calls)].role = "QA"
    /\ ~calls[Len(calls)].ok
    /\ Revisions >= 1
    /\ DOMAIN results = {"requirements", "code", "review", "final_code", "documentation"}

---------------------------------------------------------------------------
(* C11: across a run the result mapping grows monotonically: keys are      *)
(* added in execution order (requirements, code, review, final_code,       *)
(* documentation, tests, deployment), a key once set is never removed, and *)
(* in every reachable state a key is absent exactly when its stage has not *)
(* yet run.                                                                *)

\* the keys in execution order; review and final_code are one stage's output
KeyOrder == <<"requirements", "code", "review", "final_code", "documentation",
              "tests", "deployment">>

KeysUpTo(n) == {KeyOrder[i] : i \in 1..n}

\* the stage of the current call that sets the key has completed
StageHasRun(k) ==
    CASE k = "requirements" -> Answered(1)
      [] k = "code" -> Answered(2)
      [] k \in {"review", "final_code"} -> Returned
      [] k = "documentation" -> Answered(4)
      [] k = "tests" -> Answered(5)
      [] k = "deployment" -> Answered(6)

\* as claimed: the keys present are the outputs of the stages that have run
\* in this call, so they are an initial part of the execution order and none
\* has gone
C11_AsClaimed ==
    entry = "process_requirement" =>
        /\ \E n \in 0..Len(KeyOrder) : DOMAIN results = KeysUpTo(n)
        /\ \A k \in ResultKeys : k \notin DOMAIN results <=> ~StageHasRun(k)

---------------------------------------------------------------------------
(* C12: results['final_code'] is the revision loop's current code when the *)
(* loop ended, by approval or by the budget: once a revision was made it   *)
(* is the output of the last revision, not the code the loop started with, *)
(* and it is the code the Writer, QA and DevOps are sent.                  *)

\* the calls to the three roles that follow the loop
AfterLoopIdx == {i \in CallIdx : calls[i].role \in {"Writer", "QA", "DevOps"}}

C12_FinalCodeIsLoopCode ==
    (entry = "process_requirement" /\ Returned) =>
        /\ results["final_code"] = current_code
        /\ results["final_code"] = rc_return[1].code
        /\ Revisions = 0 => results["final_code"] = results["code"]
        /\ Revisions >= 1 => results["final_code"] = LastRevisionReply
        /\ \A i \in AfterLoopIdx : calls[i].code = results["final_code"]
        /\ sent.role \in {"Writer", "QA", "DevOps"} => sent.code = results["final_code"]

\* two revisions, the last one changing the code, and all three later roles
\* called; the loop ended by the budget
C12_Witness ==
    /\ Succeeded
    /\ Revisions = 2
    /\ Reviews = 3
    /\ results["code"] = "def add(a,b): return a+b"
    /\ results["final_code"] = "improved code"
    /\ Cardinality(AfterLoopIdx) = 3
    /\ Get(results["review"], "status") = "needs_revision"

---------------------------------------------------------------------------
(* C13: when the Reviewer rejects on every call, _review_code makes        *)
(* exactly max_iterations Reviewer invocations and max_iterations - 1      *)
(* Developer re-invocations and returns a verdict whose status is          *)
(* needs_revision (max_iterations = 2: two reviews, one revision).         *)

C13_RejectedThroughout ==
    (max_iterations >= 1 /\ Returned /\ AlwaysNeedsRevision) =>
        /\ Reviews = max_iterations
        /\ Revisions = max_iterations - 1
        /\ Get(rc_return[1].review, "status") = "needs_revision"
        /\ rc_return[1].review = calls[Max(ReviewIdx)].verdict

\* the scenario of test_max_review_iterations
C13_Witness ==
    /\ entry = "_review_code"
    /\ pc = "returned"
    /\ max_iterations = 2
    /\ AlwaysNeedsRevision
    /\ Reviews = 2
    /\ Revisions = 1
    /\ Get(rc_return[1].review, "status") = "needs_revision"

---------------------------------------------------------------------------
(* C14: for max_iterations <= 0 the revision loop behaves as for           *)
(* max_iterations = 1: it performs exactly one review and no revision,     *)
(* reaches Done and returns a (verdict, code) pair exactly once.           *)

\* the call has ended, by return or by exception
CallEnded == pc \in {"returned", "raised"}

\* as claimed: a direct call with max_iterations <= 0 ends by returning one
\* pair after one review
C14_AsClaimed ==
    (entry = "_review_code" /\ max_iterations <= 0 /\ CallEnded) =>
        /\ pc = "returned"
        /\ Len(rc_return) = 1
        /\ Reviews = 1
        /\ Revisions = 0

---------------------------------------------------------------------------
(* C19: when the Reviewer rejects k-1 times and approves on its k-th       *)
(* response (2 <= k <= max_iterations), _review_code returns the approved  *)
(* verdict and the code of the (k-1)-th Developer revision, after exactly  *)
(* k Reviewer invocations and k-1 revisions.                               *)

\* the position in the log of the n-th call among those of idx
Nth(idx, n) == CHOOSE i \in idx : Cardinality({j \in idx : j <= i}) = n

\* the first k-1 Reviewer replies are not approvals and the k-th is one
ApprovedAtRound(k) ==
    /\ Reviews >= k
    /\ \A i \in CallIdx : calls[i].ok
    /\ \A n \in 1..(k - 1) :
          Get(calls[Nth(ReviewIdx, n)].verdict, "status") # "approved"
    /\ Get(calls[Nth(ReviewIdx, k)].verdict, "status") = "approved"

C19_ApprovedAfterRevisions ==
    \A k \in 2..max_iterations :
        ApprovedAtRound(k) =>
            /\ Reviews = k
            /\ Revisions = k - 1
            /\ rc_return = <<[review |-> calls[Nth(ReviewIdx, k)].verdict,
                              code |-> calls[Nth(RevisionIdx, k - 1)].reply]>>
            /\ Get(rc_return[1].review, "status") = "approved"

\* test_review_code_needs_revision: one rejection, one revision, approval
C19_Witness ==
    /\ entry = "_review_code"
    /\ pc = "returned"
    /\ ApprovedAtRound(2)
    /\ code_arg = "def add(a,b): return a+b"
    /\ rc_return[1].code = "improved code"

\* the same with the approval in the last round the budget allows
C19_WitnessLastRound ==
    /\ pc = "returned"
    /\ max_iterations = 3
    /\ ApprovedAtRound(3)

---------------------------------------------------------------------------
(* C20: in the revising step, taken with iteration < max_iterations - 1,   *)
(* the Developer is sent the current code together with the raw text of    *)
(* the rejecting Reviewer response, not the parsed verdict; the current    *)
(* code is replaced by the Developer's response, the iteration counter     *)
(* goes up by exactly one, and the next step is a review of the new code.  *)

\* a step of the loop's revision whose call is answered
RevisionAnswered == pc = "revise" /\ pc' # "raised"

C20_RevisingStep ==
    /\ pc = "revise" =>
          /\ iteration < max_iterations - 1
          /\ ~IsApproved(review_result)
          /\ sent' = Msg("Developer", current_code, review_text)
    /\ RevisionAnswered =>
          /\ current_code' = calls'[Len(calls')].reply
          /\ calls'[Len(calls')].role = "Developer"
          /\ calls'[Len(calls')].code = current_code
          /\ iteration' = iteration + 1
          /\ pc' = "review"
    /\ pc = "review" => sent' = Msg("Reviewer", current_code, <<>>)

C20_Revising == [][C20_RevisingStep]_vars

\* a revision was asked for with a response that is more than its verdict,
\* the reply replaced the code, and the loop is about to review it
C20_Witness ==
    /\ pc = "review"
    /\ iteration = 1
    /\ sent = Msg("Developer", "def add(a,b): return a+b", <<"x", "{", "N", "}", "x">>)
    /\ review_result = [status |-> "needs_revision"]
    /\ current_code = "improved code"

---------------------------------------------------------------------------
(* C17: every call of process_requirement ends in one of two ways: it      *)
(* returns a complete result mapping (all seven keys), or it raises an     *)
(* exception that carries the partial result accumulated up to the         *)
(* failing stage.                                                          *)

\* as claimed: the exception holds the partial result
C17_AsClaimed ==
    (entry = "process_requirement" /\ CallEnded) =>
        \/ pc = "returned" /\ DOMAIN results = ResultKeys
        \/ pc = "raised" /\ exc_partial = <<results>>

\* amended: the exception raised is the failing call's own and holds nothing
\* of the result; the partial result stays in the instance's mapping
C17_Amended ==
    (entry = "process_requirement" /\ CallEnded) =>
        \/ /\ pc = "returned"
           /\ exc = "none"
           /\ DOMAIN results = ResultKeys
        \/ /\ pc = "raised"
           /\ exc = "transport"
           /\ exc_partial = <<>>
           /\ FailedIdx = {Len(calls)}
           /\ CompletedOutputsKept
           /\ \A k \in ResultKeys : StageHasRun(k) => k \in DOMAIN results

\* the Reviewer fails in the second round: the revision made is in no key
C17_Witness ==
    /\ entry = "process_requirement"
    /\ pc = "raised"
    /\ calls[Len(calls)].role = "Reviewer"
    /\ Revisions = 1
    /\ exc_partial = <<>>
    /\ DOMAIN results = {"requirements", "code"}

---------------------------------------------------------------------------
(* C15: _analyze_requirements returns a mapping without raising for every  *)
(* requirement string, the empty string included, even when the            *)
(* conversation holds no recorded Analyst message (chat_messages empty).   *)

\* as claimed: once initiate_chat has come back, the call ends by returning
\* a mapping, which can only be the fallback when there was no message
C15_AsClaimed ==
    (entry = "_analyze_requirements" /\ AnalystAnswered) =>
        /\ pc = "returned"
        /\ exc = "none"
        /\ last_message = <<>> =>
              req_result = RequirementsFallback(requirement)

---------------------------------------------------------------------------
(* C16: save_results writes one fixed-name file per result field that is   *)
(* present and nothing for an absent field; the files it can write are     *)
(* only requirements.json, generated_code.py, code_review.json,            *)
(* documentation.md, test_generated_code.py, deploy.sh,                    *)
(* deployment_info.json, full_results.json and the index document, for any *)
(* subset of fields present in the result mapping.                         *)

ClaimedFiles ==
    {"requirements.json", "generated_code.py", "code_review.json",
     "documentation.md", "test_generated_code.py", "deploy.sh",
     "deployment_info.json", "full_results.json", "README.md"}

---------------------------------------------------------------------------
(* C18: constructing MultiAgentFramework succeeds for any api_key, the     *)
(* empty string included, and leaves the instance with an empty result     *)
(* mapping, the given model (default 'llama-3.3-70b-versatile') and all    *)
(* six role agents plus the user proxy initialised.                        *)

\* a step that constructs: the only one taken before there is an instance,
\* and the only one that leads to the idle position from elsewhere
Constructing == pc = "new" \/ (pc \in AtRest /\ pc' = "idle")

C18_ConstructStep ==
    Constructing =>
        /\ pc' = "idle"
        /\ exc' = "none"
        /\ ctor_args'.api_key \in ApiKeys
        /\ api_key' = ctor_args'.api_key
        /\ model' = IF ctor_args'.model = Absent
                    THEN "llama-3.3-70b-versatile" ELSE ctor_args'.model
        /\ results' = EmptyDict
        /\ agents' = {"req_agent", "coding_agent", "review_agent", "doc_agent",
                      "test_agent", "deploy_agent", "user_proxy"}

C18_Construction == [][C18_ConstructStep]_vars

\* test_error_handling_no_api_key, in place of an instance that held results
C18_Witness ==
    /\ pc = "idle"
    /\ ctor_args = [api_key |-> "", model |-> Absent]
    /\ api_key = ""
    /\ model = "llama-3.3-70b-versatile"
    /\ results = EmptyDict
    /\ Cardinality(agents) = 7

\* a model is given
C18_WitnessModelGiven ==
    /\ pc = "idle"
    /\ ctor_args.model = "llama-3.1-8b-instant"
    /\ model = "llama-3.1-8b-instant"

---------------------------------------------------------------------------
(* C21: a Reviewer response that decodes to a well-formed object whose     *)
(* status is absent or is not 'approved' (for example '{}') is not treated *)
(* as an approval: the object is taken as it is and handled as a           *)
(* rejection, with a revision when budget remains and as the final         *)
(* verdict when the budget is exhausted.                                   *)

\* the step in which the Reviewer's answer arrives
ReviewAnswered ==
    /\ pc = "review"
    /\ Len(calls') = Len(calls) + 1
    /\ calls'[Len(calls')].ok

\* the status member of a well-formed response, "None" where it has none
StatusIn(text) ==
    LET inner == SubSeq(SpanOf(text), 2, Len(SpanOf(text)) - 1)
        at == {i \in 1..Len(inner) : inner[i] \in {"A", "N"}}
    IN  IF at = {} THEN "None"
        ELSE IF inner[Max(at)] = "A" THEN "approved" ELSE "needs_revision"

C21_Step ==
    (ReviewAnswered /\ Decodes(review_text') /\ StatusIn(review_text') # "approved") =>
        /\ review_result' = ObjectValue(SpanOf(review_text'))
        /\ "score" \in DOMAIN review_result' <=>
              \E i \in 1..Len(review_text') : review_text'[i] = "S"
        /\ "status" \in DOMAIN review_result' <=> StatusIn(review_text') # "None"
        /\ IF iteration < max_iterations - 1
           THEN pc' = "revise" /\ rc_return' = <<>>
           ELSE /\ rc_return' = <<[review |-> review_result', code |-> current_code]>>
                /\ pc' \in {"document", "returned"}

C21_NoSchemaValidation == [][C21_Step]_vars

\* '{}' with budget left: a revision is asked for, with no field added
C21_Witness ==
    /\ pc = "revise"
    /\ review_text = <<"{", "}">>
    /\ review_result = EmptyDict
    /\ iteration = 0

\* '{}' in the last round: the empty object is the verdict returned
C21_WitnessExhausted ==
    /\ Returned
    /\ review_text = <<"{", "}">>
    /\ rc_return[1].review = EmptyDict
    /\ Reviews = max_iterations
    /\ max_iterations >= 2

---------------------------------------------------------------------------
(* C22: the parser's span is greedy from the first '{' to the last '}':    *)
(* when a response holds two separate well-formed objects with other text  *)
(* between them, the span covers both and does not decode, and the call    *)
(* site's fallback is returned, not the first object; such a Reviewer      *)
(* response counts as approved.                                            *)

\* the text is: words, an object, words (at least one), an object, words
TwoObjects(text) ==
    /\ Cardinality(Opens(text)) = 2
    /\ Cardinality(Closes(text)) = 2
    /\ LET o1 == Min(Opens(text))
           o2 == Max(Opens(text))
           c1 == Min(Closes(text))
           c2 == Max(Closes(text))
       IN  /\ o1 < c1 /\ c1 + 1 < o2 /\ o2 < c2
           /\ IsObject(SubSeq(text, o1, c1))
           /\ IsObject(SubSeq(text, o2, c2))

FirstObject(text) == SubSeq(text, Min(Opens(text)), Min(Closes(text)))

C22_GreedySpan ==
    (p_site # "none" /\ TwoObjects(p_text)) =>
        /\ ~IsObject(SpanOf(p_text))
        /\ ~p_out.raised
        /\ p_site = "Reviewer" =>
              /\ p_out.value = [status |-> "approved", score |-> 8]
              /\ Get(p_out.value, "status") = "approved"
        /\ p_site = "Analyst" =>
              /\ DOMAIN p_out.value =
                    {"title", "description", "features", "constraints", "edge_cases"}
              /\ p_out.value.description = p_requirement

\* two rejections in one response come out as an approval
C22_Witness ==
    /\ p_site = "Reviewer"
    /\ p_text = <<"{", "N", "}", "x", "{", "N", "}">>
    /\ FirstObject(p_text) = <<"{", "N", "}">>
    /\ p_out.value = [status |-> "approved", score |-> 8]

---------------------------------------------------------------------------
(* C23: once results['requirements'] is set in a run, no later stage of    *)
(* that run changes it, and that same value is the one handed to the       *)
(* Developer, the revision loop, the Writer, QA and DevOps.                *)

\* the positions of a run after the analysis
AfterAnalysis == {"generate", "review", "revise", "document", "tests", "deploy"}

\* the requirements are kept by every step of the stages that follow
C23_Kept ==
    (entry = "process_requirement" /\ pc \in AfterAnalysis) =>
        /\ "requirements" \in DOMAIN results
        /\ "requirements" \in DOMAIN results'
        /\ results'["requirements"] = results["requirements"]
        /\ req_result' = req_result

\* every helper called so far in the run was given the stored value
C23_Handed ==
    (entry = "process_requirement" /\ req_arg # <<>>) =>
        /\ "requirements" \in DOMAIN results
        /\ req_arg = <<results["requirements"]>>

C23_RequirementsImmutable == [] C23_Handed /\ [][C23_Kept]_vars

\* a decoded Analyst answer, a revision made, and DevOps called with it
C23_Witness ==
    /\ Succeeded
    /\ Revisions >= 1
    /\ last_message = <<"{", "N", "}">>
    /\ results["requirements"] = [status |-> "needs_revision"]
    /\ req_arg = <<[status |-> "needs_revision"]>>

---------------------------------------------------------------------------
(* C24: in every state of _review_code with max_iterations >= 1,           *)
(* revisions <= reviews <= revisions + 1 and reviews <= max_iterations;    *)
(* when it returns, the Reviewer has been invoked exactly once more than   *)
(* the Developer has been asked to revise.                                 *)

\* reviews and revisions take turns in the log, a review first
Alternating ==
    \A i \in LoopIdx :
        IF IsReview(calls[i])
        THEN Cardinality({j \in ReviewIdx : j <= i})
                = Cardinality({j \in RevisionIdx : j <= i}) + 1
        ELSE Cardinality({j \in ReviewIdx : j <= i})
                = Cardinality({j \in RevisionIdx : j <= i})

C24_Counts ==
    max_iterations >= 1 =>
        /\ Revisions <= Reviews
        /\ Reviews <= Revisions + 1
        /\ Reviews <= max_iterations
        /\ Alternating
        /\ pc = "revise" => Reviews = Revisions + 1
        /\ Returned => Reviews = Revisions + 1

\* returned from a direct call after three reviews and two revisions
C24_Witness ==
    /\ entry = "_review_code"
    /\ Returned
    /\ Reviews = 3
    /\ Revisions = 2
    /\ Get(rc_return[1].review, "status") = "approved"

\* between a revision and the review of its code the counts are equal
C24_WitnessEqual ==
    /\ pc = "review"
    /\ Reviews = 2
    /\ Revisions = 2

---------------------------------------------------------------------------
(* C25: on a fresh instance the keys 'review' and 'final_code' are set     *)
(* together: in every state the caller can observe both are present or     *)
(* neither is; a failure inside the revision loop, in any Reviewer or      *)
(* Developer call, leaves both absent, so the revisions already made in    *)
(* that loop are recorded nowhere in the result mapping.                   *)

\* the call that failed is one of the loop's
FailedInLoop ==
    /\ pc = "raised"
    /\ calls # <<>>
    /\ ~calls[Len(calls)].ok
    /\ Stage(calls[Len(calls)]) = 3

C25_SetTogether ==
    (entry = "process_requirement" /\ run = 1) =>
        /\ "review" \in DOMAIN results <=> "final_code" \in DOMAIN results
        /\ "review" \in DOMAIN results <=> Returned
        /\ FailedInLoop =>
              /\ DOMAIN results = {"requirements", "code"}
              /\ results["code"] = calls[2].reply
              /\ results["requirements"] = req_result

\* the second revision fails: the first one's code is in current_code only
C25_Witness ==
    /\ entry = "process_requirement"
    /\ FailedInLoop
    /\ calls[Len(calls)].role = "Developer"
    /\ Revisions = 2
    /\ current_code = "improved code"
    /\ results["code"] = "def add(a,b): return a+b"
    /\ DOMAIN results = {"requirements", "code"}

---------------------------------------------------------------------------
(* C26: process_requirement never clears the instance's result mapping:    *)
(* when a second run on the same instance fails at some stage, the mapping *)
(* holds the new run's outputs for the stages that completed and the       *)
(* previous run's outputs for the failing stage and every later stage.     *)

\* the key is as the previous runs left it
AsBefore(k) ==
    /\ k \in DOMAIN results <=> k \in DOMAIN prev_results
    /\ k \in DOMAIN results => results[k] = prev_results[k]

C26_NeverCleared ==
    entry = "process_requirement" =>
        /\ DOMAIN prev_results \subseteq DOMAIN results
        /\ \A k \in ResultKeys : ~StageHasRun(k) => AsBefore(k)
        /\ CompletedOutputsKept
        /\ Answered(6) => results["deployment"].script = ReplyOf("DevOps")

\* the first run succeeded with a revision; the second fails at the Writer
\* after an approval at once: requirements to final_code are the second
\* run's, documentation to deployment the first's
C26_Witness ==
    /\ entry = "process_requirement"
    /\ run = 2
    /\ pc = "raised"
    /\ calls[Len(calls)].role = "Writer"
    /\ DOMAIN prev_results = ResultKeys
    /\ DOMAIN results = ResultKeys
    /\ prev_results["final_code"] = "improved code"
    /\ results["final_code"] = "def add(a,b): return a+b"
    /\ Get(prev_results["review"], "status") = "needs_revision"
    /\ Get(results["review"], "status") = "approved"
    /\ results["documentation"] = prev_results["documentation"]
    /\ results["deployment"] = prev_results["deployment"]

---------------------------------------------------------------------------
(* C27: the mapping process_requirement returns is the instance's own      *)
(* result mapping, not a copy: a later process_requirement call on the     *)
(* same instance changes the values seen through a result returned         *)
(* before.                                                                 *)

\* a later call has replaced the value of key k
Replaced(k) ==
    /\ k \in DOMAIN prev_results
    /\ k \in DOMAIN results
    /\ results[k] # prev_results[k]

---------------------------------------------------------------------------
(* C28: after a successful run results['code'] is the Developer's first    *)
(* output, from before the review, and the revision loop has not modified  *)
(* it, whatever the number of revisions; results['code'] differs from      *)
(* results['final_code'] only if at least one revision was made.           *)

\* the Developer's answer to the generation request
FirstDeveloperReply ==
    calls[Min({i \in CallIdx : calls[i].role = "Developer" /\ calls[i].code = NoCode})].reply

C28_AfterSuccess ==
    Succeeded =>
        /\ results["code"] = FirstDeveloperReply
        /\ results["code"] = code_arg
        /\ results["code"] # results["final_code"] => Revisions >= 1
        /\ Revisions = 0 => results["code"] = results["final_code"]

\* no step after the generation changes the key
C28_CodeKept ==
    (entry = "process_requirement" /\ pc \in AfterAnalysis \ {"generate"}) =>
        /\ "code" \in DOMAIN results
        /\ "code" \in DOMAIN results'
        /\ results'["code"] = results["code"]

C28_InitialCodeKept == [] C28_AfterSuccess /\ [][C28_CodeKept]_vars

\* two revisions, and the two keys differ
C28_Witness ==
    /\ Succeeded
    /\ Revisions = 2
    /\ results["code"] = ""
    /\ results["final_code"] = "improved code"

\* two revisions that gave the first code back: the keys are equal
C28_WitnessEqual ==
    /\ Succeeded
    /\ Revisions = 2
    /\ results["code"] = "def add(a,b): return a+b"
    /\ results["final_code"] = results["code"]

---------------------------------------------------------------------------
(* C29: process_requirement always runs the revision loop with the fixed   *)
(* budget 3, no setting being consulted: in one run the Reviewer is        *)
(* invoked at most 3 times and the Developer at most 3 times in total,     *)
(* one generation and at most 2 revisions.                                 *)

C29_FixedBudget ==
    entry = "process_requirement" =>
        /\ max_iterations \in {0, 3}
        /\ pc \in AfterAnalysis \ {"generate"} => max_iterations = 3
        /\ iteration <= 3
        /\ RoleCount("Reviewer") <= 3
        /\ Revisions <= 2
        /\ RoleCount("Developer") <= 3
        /\ Succeeded => RoleCount("Developer") = 1 + Revisions

\* a completed run that used the whole budget
C29_Witness ==
    /\ Succeeded
    /\ max_iterations = 3
    /\ Reviews = 3
    /\ Revisions = 2
    /\ RoleCount("Developer") = 3

====
